---- MODULE Spec2Model ----
(***************************************************************************)
(* Resilient external-price acquisition: the CircuitBreaker state machine  *)
(* and the price clients (MetalPriceApiClient, ExchangeRateApiClient) that *)
(* cache responses and run their live fetches through a breaker.           *)
(* BaseApiClient.executeWithRetry (retry and backoff of one HTTP call) and *)
(* the DIContainer (registration, resolution by lifecycle, scopes and      *)
(* disposal), MetalPriceApiClient.fetchMetalPrice on top of the HTTP call, *)
(* and the EventBus (subscriptions, publish and its drain loop) are        *)
(* modelled next to them, each with its own specification.                 *)
(*                                                                         *)
(* Time is the value of Date.now(), an integer clock advanced by Tick.     *)
(* The runtime is single-threaded and cooperative: every action is the     *)
(* code that runs between two suspension points (an await on fn, on a      *)
(* timer or on the HTTP layer).                                            *)
(***************************************************************************)
EXTENDS Integers, Sequences, FiniteSets, TLC

\* ---- bounds of the model ------------------------------------------------
MaxTime == 3
MaxCalls == 2
MaxRequests == 2
MaxFetches == 4
MaxTicks == 2

\* the configurations a breaker is constructed with
Configs ==
  [failureThreshold : {1, 2}, resetTimeout : {1, 2}, monitoringPeriod : {1, 3}]

\* shouldOpenCircuit: the rolling rate counts only with at least 10 samples
MinSamples == 10

\* an unset optional Date (undefined)
None == -1

VARIABLES
  now,        \* Date.now()
  config,     \* CircuitBreaker.config
  breaker,    \* the fields of one CircuitBreaker
  calls,      \* direct callers of execute: slot -> where the call stands
  event,      \* the operation the last step performed
  issued,     \* how many calls execute has admitted so far (bounds the run)
  client,     \* which price client owns the breaker: "metal", "exchange", "none"
  cache,      \* the client's cache: key -> {data, timestamp}
  lastRequestTime,  \* MetalPriceApiClient.lastRequestTime
  reqs,       \* getCurrentPrice / getExchangeRate calls: slot -> where it stands
  ret,        \* what the call settled by the last step returned
  answers,    \* the kinds of answer the upstream has given so far
  ticks,      \* how many times the client's clock has advanced (bounds the run)
  http,       \* one BaseApiClient: its retryConfig and the call it is executing
  di,         \* one DIContainer: its maps, currentScope and the objects made
  frames,     \* withScope calls: slot -> where the call stands
  fetch,      \* one fetchMetalPrice call: where it stands, the URLs it requested
  bus,        \* one EventBus: subscriptions, eventQueue, processing, options
  handles,    \* the subscriptions returned by subscribe: id -> type, handler
  loops,      \* processQueue calls: slot -> the delivery it awaits
  direct,     \* a caller's publishSync call: the delivery it awaits
  trail       \* what has been observed of the bus: deliveries, errorHandler calls

cbVars == <<config, breaker, calls, issued>>
clientVars == <<client, cache, lastRequestTime, reqs, ret, answers, ticks>>
httpVars == <<http>>
diVars == <<di, frames>>
fetchVars == <<fetch>>
busVars == <<bus, handles, loops, direct, trail>>
restVars == <<httpVars, diVars, fetchVars, busVars>>
vars == <<now, event, cbVars, clientVars, restVars>>

Slots == 1..MaxCalls

\* ---- CircuitBreaker -----------------------------------------------------

NewBreaker ==
  [state |-> "closed", failureCount |-> 0, successCount |-> 0,
   totalRequests |-> 0, lastFailureTime |-> None, nextRetryTime |-> None,
   monitoringWindow |-> <<>>]

IsFresh(e, cutoff) == e.timestamp > cutoff

CleanupOldEntries(w, cfg, t) ==
  SelectSeq(w, LAMBDA e : IsFresh(e, t - cfg.monitoringPeriod))

AddToMonitoringWindow(w, ok, cfg, t) ==
  CleanupOldEntries(Append(w, [success |-> ok, timestamp |-> t]), cfg, t)

Failures(w) == Len(SelectSeq(w, LAMBDA e : ~e.success))

\* getFailureRate() >= 0.5, on the pruned window (0 when the window is empty)
FailureRateAtLeastHalf(w, cfg, t) ==
  LET p == CleanupOldEntries(w, cfg, t)
  IN  Len(p) # 0 /\ 2 * Failures(p) >= Len(p)

\* faulty variant: the threshold compared with > instead of >=
ShouldOpenCircuitStrict(b, cfg, t) ==
  \/ b.failureCount > cfg.failureThreshold
  \/ /\ FailureRateAtLeastHalf(b.monitoringWindow, cfg, t)
     /\ Len(CleanupOldEntries(b.monitoringWindow, cfg, t)) >= MinSamples

ShouldOpenCircuit(b, cfg, t) ==
  \/ b.failureCount >= cfg.failureThreshold
  \/ /\ FailureRateAtLeastHalf(b.monitoringWindow, cfg, t)
     /\ Len(CleanupOldEntries(b.monitoringWindow, cfg, t)) >= MinSamples

ShouldAttemptReset(b, t) == b.nextRetryTime # None /\ t >= b.nextRetryTime

\* faulty variant: a half-open success closes the circuit but keeps failureCount
OnSuccessKeepCount(b, cfg, t) ==
  LET b1 == [b EXCEPT !.successCount = @ + 1,
                      !.monitoringWindow = AddToMonitoringWindow(@, TRUE, cfg, t)]
  IN  IF b1.state = "half-open"
      THEN [b1 EXCEPT !.state = "closed", !.nextRetryTime = None]
      ELSE b1

OnSuccess(b, cfg, t) ==
  LET b1 == [b EXCEPT !.successCount = @ + 1,
                      !.monitoringWindow = AddToMonitoringWindow(@, TRUE, cfg, t)]
  IN  IF b1.state = "half-open"
      THEN [b1 EXCEPT !.state = "closed", !.failureCount = 0,
                      !.nextRetryTime = None]
      ELSE b1

OnFailure(b, cfg, t) ==
  LET b1 == [b EXCEPT !.failureCount = @ + 1,
                      !.lastFailureTime = t,
                      !.monitoringWindow = AddToMonitoringWindow(@, FALSE, cfg, t)]
  IN  IF ShouldOpenCircuit(b1, cfg, t)
      THEN [b1 EXCEPT !.state = "open",
                      !.nextRetryTime = t + cfg.resetTimeout]
      ELSE b1

\* execute, lines 36-44: the admission check and the request count.
\* Rejected: the call throws 'Circuit breaker is open' before fn runs.
Rejects(b, t) == b.state = "open" /\ ~ShouldAttemptReset(b, t)

Admit(b, t) ==
  LET b1 == IF b.state = "open" THEN [b EXCEPT !.state = "half-open"] ELSE b
  IN  [b1 EXCEPT !.totalRequests = @ + 1]

\* faulty variant: the request is counted before the admission check
OnRejectCounted(b) == [b EXCEPT !.totalRequests = @ + 1]

OnReject(b) == b

ResetBreaker(b) == NewBreaker

\* faulty variant: forceOpen forgets nextRetryTime
ForceOpenNoRetry(b, cfg, t) ==
  [b EXCEPT !.state = "open", !.lastFailureTime = t]

ForceOpenBreaker(b, cfg, t) ==
  [b EXCEPT !.state = "open", !.lastFailureTime = t,
            !.nextRetryTime = t + cfg.resetTimeout]

ForceClosedBreaker(b) ==
  [b EXCEPT !.state = "closed", !.failureCount = 0, !.nextRetryTime = None]

\* ---- price clients: cache ---------------------------------------------------

\* cacheTimeout = 60 * 60 * 1000 (both clients); rateLimit default 1000
CacheTimeout == 3600000
RateLimit == 1000

\* the breakers the clients ask the factory for
MetalBreakerConfig ==
  [failureThreshold |-> 3, resetTimeout |-> 120000, monitoringPeriod |-> 600000]
ExchangeBreakerConfig ==
  [failureThreshold |-> 3, resetTimeout |-> 300000, monitoringPeriod |-> 900000]

\* cache keys: a metal name, or a `${from}-${to}` currency pair
Keys == {"k1"}

\* null (no price / no rate)
NoPrice == 0
NoEntry == [data |-> NoPrice, timestamp |-> None]

\* faulty variant: the expiry test is lost
GetCachedPriceNoExpiry(c, key, includeExpired, t) ==
  IF c[key] = NoEntry THEN NoPrice ELSE c[key].data

\* getCachedPrice(metal, includeExpired)
GetCachedPrice(c, key, includeExpired, t) ==
  IF c[key] = NoEntry THEN NoPrice
  ELSE LET isExpired == t - c[key].timestamp > CacheTimeout
       IN  IF isExpired /\ ~includeExpired THEN NoPrice ELSE c[key].data

\* getCachedRate(cacheKey, includeExpired)
GetCachedRate(c, key, includeExpired, t) ==
  IF c[key] = NoEntry THEN NoPrice
  ELSE LET isExpired == t - c[key].timestamp > CacheTimeout
       IN  IF isExpired /\ ~includeExpired THEN NoPrice ELSE c[key].data

GetCached(who, c, key, includeExpired, t) ==
  IF who = "metal" THEN GetCachedPrice(c, key, includeExpired, t)
                   ELSE GetCachedRate(c, key, includeExpired, t)

\* cachePrice / cacheRate
CachePrice(c, key, price, t) ==
  [c EXCEPT ![key] = [data |-> price, timestamp |-> t]]

\* faulty variant: the catch block forgets includeExpired = true
CatchFallbackFreshOnly(who, c, key, t) ==
  [kind |-> "return", value |-> GetCached(who, c, key, FALSE, t)]

\* the catch block of getCurrentPrice / getExchangeRate:
\* return getCached(key, true) || null
CatchFallback(who, c, key, t) ==
  [kind |-> "return", value |-> GetCached(who, c, key, TRUE, t)]

\* how the entry for key looks to a call that starts at t
EntryAge(c, key, t) ==
  IF c[key] = NoEntry THEN "absent"
  ELSE IF t - c[key].timestamp < CacheTimeout THEN "fresh"
  ELSE IF t - c[key].timestamp = CacheTimeout THEN "boundary"
  ELSE "expired"

IdleReq ==
  [pc |-> "idle", key |-> "", wakeAt |-> None, found |-> "", seq |-> 0]

NoRet == [how |-> "none"]

Ret(how, kind, key, value, found) ==
  [how |-> how, kind |-> kind, key |-> key, value |-> value, found |-> found]

\* ---- DIContainer ------------------------------------------------------------

MaxScopes == 2

\* the depth of nested resolve calls at which the engine's call stack is
\* exhausted (RangeError: Maximum call stack size exceeded)
StackLimit == 4

Tokens == {"A", "B"}
ScopeIds == {"s1", "s2"}
Lifecycles == {"singleton", "transient", "scoped"}

\* the dependency lists a descriptor is registered with (descriptor.dependencies,
\* or the tokens its factory resolves from the container)
DependencyLists == {<<>>, <<"A">>, <<"B">>}

\* an object made by a factory or supplied by a caller is named by where it
\* was first kept (home) and a number that tells it from the earlier objects
\* of that home that are still referred to
Inst(home, n) == [home |-> home, n |-> n]

\* an absent map entry, an unset reference
NoInst == Inst(<<>>, 0)
NoScope == 0

\* services.get(token) of an unregistered token
NoService ==
  [token |-> "", lifecycle |-> "none", make |-> "none", deps |-> <<>>,
   instance |-> NoInst]

\* createScope: a scope object with an empty instances map; held: it was
\* returned to a caller, who can call its dispose()
NewScope(id, held) ==
  [id |-> id, instances |-> [t \in Tokens |-> NoInst], held |-> held]

\* the place of a scope object that does not exist
FreeScope == NewScope("", FALSE)

\* createScope(id): a new scope object takes the id's entry in the scopes map
CreateScopeIn(c, id, obj, held) ==
  [c EXCEPT !.heap[obj] = NewScope(id, held), !.scopes[id] = obj]

ScopeObjs == 1..MaxScopes

\* new DIContainer(): services, singletons and scopes are empty maps and
\* currentScope is undefined. heap holds the scope objects that exist (the
\* scopes map, currentScope and the withScope calls refer to them by place);
\* fresh names the objects made so far by the running resolve call.
NewContainer ==
  [services |-> [t \in Tokens |-> NoService],
   singletons |-> [t \in Tokens |-> NoInst],
   scopes |-> [s \in ScopeIds |-> NoScope],
   currentScope |-> NoScope,
   heap |-> [o \in ScopeObjs |-> FreeScope],
   fresh |-> {}]

\* register: fullDescriptor = {token, lifecycle: 'transient', ...descriptor}
\* replaces the token's entry in services; nothing else is touched
RegisterIn(c, token, lifecycle, make, deps, instance) ==
  [c EXCEPT !.services[token] =
              [token |-> token, lifecycle |-> lifecycle, make |-> make,
               deps |-> deps, instance |-> instance]]

InstancesOf(scope) == {scope.instances[t] : t \in Tokens} \ {NoInst}

\* the objects the container refers to
Referenced(c) ==
  {c.singletons[t] : t \in Tokens}
    \cup {c.services[t].instance : t \in Tokens}
    \cup UNION {InstancesOf(c.heap[o]) : o \in ScopeObjs}

\* a new object, distinct from every object the container or the running
\* resolve call refers to
NewInst(c, home) ==
  LET used == {i.n : i \in {j \in Referenced(c) \cup c.fresh : j.home = home}}
      free == (1..(Cardinality(used) + 1)) \ used
  IN  Inst(home, CHOOSE n \in free : \A m \in free : n <= m)

\* where createInstance will keep the object it makes for descriptor d
Home(c, d) ==
  IF d.lifecycle = "singleton" THEN <<"singletons", d.token>>
  ELSE IF d.lifecycle = "scoped" /\ c.currentScope # NoScope
  THEN <<"scope", c.currentScope, d.token>>
  ELSE <<"caller", d.token>>

\* the outcome of one resolve call: the container afterwards, "ok" or the
\* error thrown, the instance returned, and one entry for every resolve call
\* that returned (nested ones first)
Outcome(c, result, inst, trace) ==
  [c |-> c, result |-> result, inst |-> inst, trace |-> trace]

Returned(c, d, inst, fresh, trace) ==
  Outcome(c, "ok", inst,
          Append(trace, [token |-> d.token, lifecycle |-> d.lifecycle,
                         inst |-> inst, fresh |-> fresh,
                         scope |-> c.currentScope]))

\* faulty variant: a singleton is not kept
StoreNothing(c, d, inst) == c

\* faulty variant: a scoped instance is kept like a singleton
StoreScopedAsSingleton(c, d, inst) ==
  IF d.lifecycle \in {"singleton", "scoped"}
  THEN [c EXCEPT !.singletons[d.token] = inst]
  ELSE c

\* createInstance, "Store based on lifecycle"
Store(c, d, inst) ==
  IF d.lifecycle = "singleton"
  THEN [c EXCEPT !.singletons[d.token] = inst]
  ELSE IF d.lifecycle = "scoped" /\ c.currentScope # NoScope
  THEN [c EXCEPT !.heap[c.currentScope].instances[d.token] = inst]
  ELSE c

\* descriptor.factory(...dependencies) / new descriptor.constructor(...): a new
\* object
Construct(c, d) == [c EXCEPT !.fresh = @ \cup {NewInst(c, Home(c, d))}]

RECURSIVE ResolveIn(_, _, _)
RECURSIVE ResolveDependencies(_, _, _, _)

\* createInstance
CreateInstance(c, d, depth) ==
  IF d.lifecycle = "singleton" /\ c.singletons[d.token] # NoInst
  THEN Returned(c, d, c.singletons[d.token], FALSE, <<>>)
  ELSE IF /\ d.lifecycle = "scoped"
          /\ c.currentScope # NoScope
          /\ c.heap[c.currentScope].instances[d.token] # NoInst
  THEN Returned(c, d, c.heap[c.currentScope].instances[d.token], FALSE, <<>>)
  ELSE IF d.make = "instance"
  THEN Returned(Store(c, d, d.instance), d, d.instance, FALSE, <<>>)
  ELSE IF d.make = "factory"
  THEN LET deps == ResolveDependencies(c, d.deps, depth, <<>>)
       IN  IF deps.result # "ok"
           THEN deps
           ELSE LET inst == NewInst(deps.c, Home(deps.c, d))
                IN  Returned(Store(Construct(deps.c, d), d, inst), d, inst,
                             TRUE, deps.trace)
  ELSE Outcome(c, "NoFactory", NoInst, <<>>)

\* resolve; depth is the number of resolve calls already on the stack
ResolveIn(c, token, depth) ==
  IF depth >= StackLimit
  THEN Outcome(c, "RangeError", NoInst, <<>>)
  ELSE IF c.services[token] = NoService
  THEN Outcome(c, "NotRegistered", NoInst, <<>>)
  ELSE CreateInstance(c, c.services[token], depth + 1)

\* resolveDependencies: this.resolve(dep) for each dependency in order; an
\* error thrown by one of them propagates
ResolveDependencies(c, deps, depth, trace) ==
  IF deps = <<>>
  THEN Outcome(c, "ok", NoInst, trace)
  ELSE LET first == ResolveIn(c, Head(deps), depth)
       IN  IF first.result # "ok"
           THEN Outcome(first.c, first.result, NoInst, trace \o first.trace)
           ELSE ResolveDependencies(first.c, Tail(deps), depth,
                                    trace \o first.trace)

\* scope.dispose(): dispose() of every instance of the scope object, then
\* instances.clear() and scopes.delete(scopeId)
DisposeScope(c, obj) ==
  [c EXCEPT !.heap[obj].instances = [t \in Tokens |-> NoInst],
            !.scopes[c.heap[obj].id] = NoScope]

\* the scope objects of the scopes map
ScopesOf(c) == {c.scopes[s] : s \in ScopeIds} \ {NoScope}

\* the instances of the singletons map
SingletonsOf(c) == {c.singletons[t] : t \in Tokens} \ {NoInst}

\* the instances of the scopes of the scopes map
ScopesInstances(c) == UNION {InstancesOf(c.heap[o]) : o \in ScopesOf(c)}

\* how many times dispose() calls the teardown of instance i: once for every
\* scope of the scopes map that holds it, once if the singletons map holds it
Teardowns(c, i) ==
  Cardinality({o \in ScopesOf(c) : i \in InstancesOf(c.heap[o])})
    + (IF i \in SingletonsOf(c) THEN 1 ELSE 0)

\* dispose(): every scope of the scopes map is disposed, then every instance
\* of the singletons map; then the three maps are cleared. currentScope is
\* not touched.
DisposeAll(c) ==
  [c EXCEPT !.heap = [o \in ScopeObjs |->
                        IF o \in ScopesOf(c)
                        THEN [@[o] EXCEPT !.instances =
                                            [t \in Tokens |-> NoInst]]
                        ELSE @[o]],
            !.services = [t \in Tokens |-> NoService],
            !.singletons = [t \in Tokens |-> NoInst],
            !.scopes = [s \in ScopeIds |-> NoScope]]

\* a withScope call that is not running
IdleFrame == [pc |-> "idle", id |-> "", scope |-> NoScope, previous |-> NoScope]

\* the scope objects something still refers to
ReferencedScopes(c, f) ==
  (ScopesOf(c) \cup {c.currentScope}
     \cup {f[w].scope : w \in DOMAIN f} \cup {f[w].previous : w \in DOMAIN f})
    \ {NoScope}

\* a scope object nothing refers to any more is gone
Collect(c, f) ==
  [c EXCEPT !.heap = [o \in ScopeObjs |->
                        IF o \in ReferencedScopes(c, f) THEN @[o]
                        ELSE FreeScope]]

\* ---- EventBus ---------------------------------------------------------------

MaxSubscriptions == 2
MaxPublishes == 2
MaxLoops == 2

\* the constructor's defaults
DefaultMaxRetries == 3
DefaultBusRetryDelay == 1000

EventTypes == {"x", "y"}
Handlers == {"h1"}

\* subscription ids (uuidv4: an id is never issued twice)
SubIds == 1..MaxSubscriptions

\* subscriptions.get(eventType) of a type that is not a key of the map
Absent == {0}

\* an event: its type, and its number among the events passed to publish
\* (0: passed to publishSync by a caller)
Event(type, seq) == [type |-> type, seq |-> seq]
NoEvent == Event("", 0)

\* an entry of eventQueue
Item(e, retryCount) == [event |-> e, retryCount |-> retryCount]

\* new EventBus(options): {maxRetries: 3, retryDelay: 1000, ...options}
NewBus(maxRetries, retryDelay) ==
  [subscriptions |-> [t \in EventTypes |-> Absent],
   eventQueue |-> <<>>,
   processing |-> FALSE,
   maxRetries |-> maxRetries,
   retryDelay |-> retryDelay]

\* a subscription object returned by subscribe, as its holder knows it
NoHandle == [eventType |-> "", handler |-> "", state |-> "none"]

\* subscribe: the type's map is created when the type has none, then the
\* subscription is set under its id
SubscribeIn(b, type, id) ==
  LET had == IF b.subscriptions[type] = Absent THEN {}
             ELSE b.subscriptions[type]
  IN  [b EXCEPT !.subscriptions[type] = had \cup {id}]

\* faulty variant: the emptied map of a type is left in subscriptions
UnsubscribeKeepEmpty(b, type, id) ==
  IF b.subscriptions[type] = Absent THEN b
  ELSE [b EXCEPT !.subscriptions[type] = @ \ {id}]

\* faulty variant: the type's whole entry is deleted
UnsubscribeWholeType(b, type, id) ==
  IF b.subscriptions[type] = Absent THEN b
  ELSE [b EXCEPT !.subscriptions[type] = Absent]

\* unsubscribe(eventType, subscriptionId)
UnsubscribeIn(b, type, id) ==
  IF b.subscriptions[type] = Absent THEN b
  ELSE LET left == b.subscriptions[type] \ {id}
       IN  [b EXCEPT !.subscriptions[type] =
                       IF left = {} THEN Absent ELSE left]

\* clear()
ClearIn(b) ==
  [b EXCEPT !.subscriptions = [t \in EventTypes |-> Absent],
            !.eventQueue = <<>>]

\* getStats().eventTypeCount: this.subscriptions.size
EventTypeCount(b) ==
  Cardinality({t \in EventTypes : b.subscriptions[t] # Absent})

\* publish: this.eventQueue.push({event, retryCount: 0})
Enqueue(q, e) == Append(q, Item(e, 0))

\* publish: if (!this.processing)
NotProcessing(b) == ~b.processing

\* faulty variant: the flag is left set when the loop ends
FinishKeepFlag(b) == b

\* processQueue: finally { this.processing = false }
Finish(b) == [b EXCEPT !.processing = FALSE]

\* one delivery (a publishSync call): the event, the ids whose handler was
\* invoked, in order, those whose promise has not settled, those whose promise
\* rejected; for a drain loop also the queue item and the retry delay awaited
IdleDelivery ==
  [pc |-> "idle", item |-> Item(NoEvent, 0), invoked |-> <<>>, pending |-> {},
   rejected |-> {}, delay |-> 0, result |-> "none"]

\* Array.from(subscriptions.values()): the subscriptions of the type in
\* insertion order (ids are issued in increasing order)
RECURSIVE InOrder(_)
InOrder(ids) ==
  IF ids = {} THEN <<>>
  ELSE LET first == CHOOSE i \in ids : \A j \in ids : i <= j
       IN  <<first>> \o InOrder(ids \ {first})

\* publishSync: the subscriptions the event is delivered to (none when the
\* type has no map or an empty one)
Subscribers(b, type) ==
  IF b.subscriptions[type] = Absent THEN {} ELSE b.subscriptions[type]

\* faulty variant: the handlers after one that throws are not invoked
RECURSIVE InvokedUntilThrow(_, _)
InvokedUntilThrow(order, throws) ==
  IF order = <<>> THEN <<>>
  ELSE IF Head(order) \in throws THEN <<Head(order)>>
  ELSE <<Head(order)>> \o InvokedUntilThrow(Tail(order), throws)

\* publishSync: .map(subscription => this.executeHandler(...)) calls the
\* handler of every subscription; one that throws makes its own promise reject
Invoked(order, throws) == order

\* await Promise.allSettled(promises): fulfilled whatever the promises did
AllSettled(rejected) == "fulfilled"

\* faulty variant: the await resumes although a promise is still pending
SettledOrNot(d) == TRUE

\* await Promise.allSettled(promises) resumes when every promise has settled
Settled(d) == d.pending = {}

\* publishSync(event) up to its await: throws are the subscriptions whose
\* handler throws before it returns a promise
Deliver(b, item, throws) ==
  LET order == Invoked(InOrder(Subscribers(b, item.event.type)), throws)
      ids == {order[i] : i \in DOMAIN order}
  IN  [pc |-> "delivering", item |-> item, invoked |-> order,
       pending |-> ids \ throws, rejected |-> ids \cap throws, delay |-> 0,
       result |-> "none"]

\* handleEventError, first branch: item.retryCount++ and the delay
\* retryDelay * item.retryCount that is awaited before the item is unshifted
RetryLater(b, d) ==
  [d EXCEPT !.pc = "retryDelay",
            !.item = Item(d.item.event, d.item.retryCount + 1),
            !.delay = b.retryDelay * (d.item.retryCount + 1)]

\* what is recorded of the run: how many events were passed to publish, the
\* events whose delivery the drain loop started (in order), and how many
\* times the errorHandler was called for each published event
NewTrail ==
  [published |-> 0, started |-> <<>>,
   errorCalls |-> [n \in 1..MaxPublishes |-> 0]]

\* this.options.errorHandler(error, event) called k times
ErrorHandler(tr, e, k) ==
  IF e.seq = 0 THEN tr ELSE [tr EXCEPT !.errorCalls[e.seq] = @ + k]

Loops == 1..MaxLoops

\* ---- BaseApiClient: executeWithRetry ---------------------------------------

MaxRetries == 2
MaxHttpCalls == 2

\* the constructor's defaults
DefaultRetries == 3
DefaultRetryDelay == 1000

\* config.retries || 3 and config.retryDelay || 1000: an absent or zero value
\* takes the default
OrDefault(v, d) == IF v = None \/ v = 0 THEN d ELSE v

\* the HTTP statuses an attempt is answered with
Statuses == {200, 400, 404, 499, 500, 503}

\* the errors and responses the code inspects, as the fields it reads:
\* response (the status of error.response, None when there is none), request
\* (error.request is set), code (error.code), status (the status field of an
\* ApiError, None on anything else)
Answer(response, request, code) ==
  [response |-> response, request |-> request, code |-> code, status |-> None]

NoAnswer == Answer(None, FALSE, "")

\* what axios settles one attempt with: a response with a status, no response
\* (network failure), a client-side timeout, or a failure before sending
AxiosOutcomes ==
  {Answer(st, TRUE, IF st < 300 THEN "" ELSE "ERR_BAD_RESPONSE") : st \in Statuses}
    \cup {Answer(None, TRUE, "ERR_NETWORK"),
          Answer(None, TRUE, "ECONNABORTED"),
          Answer(None, FALSE, "ERR_BAD_OPTION")}

\* axios' default validateStatus: 2xx resolves, every other status rejects
Succeeded(o) == o.response # None /\ o.response >= 200 /\ o.response < 300

\* transformError: the result is an ApiError {message, status, code, details};
\* it has no response and no request field. code is response.data?.code
\* (absent here), 'NETWORK_ERROR' or 'UNKNOWN_ERROR'
TransformError(e) ==
  IF e.response # None
  THEN [response |-> None, request |-> FALSE, code |-> "", status |-> e.response]
  ELSE IF e.request
  THEN [response |-> None, request |-> FALSE, code |-> "NETWORK_ERROR",
        status |-> None]
  ELSE [response |-> None, request |-> FALSE, code |-> "UNKNOWN_ERROR",
        status |-> None]

\* the response interceptor's error handler: Promise.reject(transformError(error))
ResponseInterceptor(o) == TransformError(o)

\* retryConfig.retryCondition?.(error): the constructor's default condition, no
\* condition (setRetryConfig({retryCondition: undefined})), or a caller's
\* condition on the ApiError's status
RetryConditions == {"default", "undefined", "serverStatus"}

RetryCondition(cond, e) ==
  CASE cond = "default" ->
         \/ e.response = None
         \/ (e.response >= 500 /\ e.response < 600)
         \/ e.code = "ECONNABORTED"
    [] cond = "serverStatus" -> e.status # None /\ e.status >= 500
    [] OTHER -> FALSE

\* attempt === this.retryConfig.retries
LastAttempt(attempt, retries) == attempt = retries

\* faulty variant: the backoff counts attempts from zero
BackoffDelayFromZero(retryDelay, attempt) == retryDelay * attempt

\* this.retryConfig.retryDelay * (attempt + 1)
BackoffDelay(retryDelay, attempt) == retryDelay * (attempt + 1)

\* a BaseApiClient that executes no call
NewHttp(retries, retryDelay, cond) ==
  [retries |-> retries, retryDelay |-> retryDelay, retryCondition |-> cond,
   pc |-> "idle", attempt |-> 0, invoked |-> 0, answer |-> NoAnswer,
   lastError |-> NoAnswer, failedAt |-> None, wakeAt |-> None,
   settled |-> "none", thrown |-> NoAnswer, calls |-> 0]

\* the HTTP call begins: executeWithRetry up to the await on the first
\* operation()
StartCall(h) ==
  [h EXCEPT !.pc = "inflight", !.attempt = 0, !.invoked = 1,
            !.answer = NoAnswer, !.lastError = NoAnswer,
            !.failedAt = None, !.wakeAt = None,
            !.settled = "none", !.thrown = NoAnswer,
            !.calls = @ + 1]

\* ---- MetalPriceApiClient: fetchMetalPrice ----------------------------------

Metals == Keys

\* the URL of the first request and of the alternative one
MetalUrl(metal) == <<"/", metal>>
SpotUrl(metal) == <<"/spot/", metal>>

\* no fetchMetalPrice call is running
NoFetch == [pc |-> "idle", metal |-> "", urls |-> <<>>, outcome |-> "none"]

\* catch (error) { if (error.status === 404) ...: error is what get() threw
Is404(h) == h.thrown.status = 404

InitRest ==
  /\ http = NewHttp(DefaultRetries, DefaultRetryDelay, "default")
  /\ di = NewContainer
  /\ frames = [w \in Slots |-> IdleFrame]
  /\ fetch = NoFetch
  /\ bus = NewBus(DefaultMaxRetries, DefaultBusRetryDelay)
  /\ handles = [i \in SubIds |-> NoHandle]
  /\ loops = [l \in Loops |-> IdleDelivery]
  /\ direct = IdleDelivery
  /\ trail = NewTrail

\* ---- direct callers of execute -------------------------------------------

IdleCall == [pc |-> "idle", admitted |-> "none", transition |-> FALSE]

\* what the last step did; probe: the call it settled had made the
\* open -> half-open transition when it was admitted
Ev(op, probe) == [op |-> op, probe |-> probe]

InitIn(configs) ==
  /\ now = 0
  /\ config \in configs
  /\ breaker = NewBreaker
  /\ calls = [c \in Slots |-> IdleCall]
  /\ event = Ev("init", FALSE)
  /\ issued = 0
  /\ client = "none"
  /\ cache = [k \in Keys |-> NoEntry]
  /\ lastRequestTime = 0
  /\ reqs = [r \in Slots |-> IdleReq]
  /\ ret = NoRet
  /\ answers = {}
  /\ ticks = 0
  /\ InitRest

Init == InitIn(Configs)

\* a new call takes the lowest free slot (slots are interchangeable)
FreeSlot(f, s) == f[s].pc = "idle" /\ \A o \in 1..(s - 1) : f[o].pc # "idle"

\* execute(fn) up to the await on fn(); at most max calls are admitted in a run
ExecuteUpTo(c, max) ==
  /\ FreeSlot(calls, c)
  /\ IF Rejects(breaker, now)
     THEN /\ breaker' = OnReject(breaker)
          /\ calls' = calls
          /\ event' = Ev("reject", FALSE)
          /\ issued' = issued
     ELSE /\ issued < max
          /\ issued' = issued + 1
          /\ breaker' = Admit(breaker, now)
          /\ calls' = [calls EXCEPT ![c] =
                         [pc |-> "pending",
                          admitted |-> breaker'.state,
                          transition |-> breaker.state = "open"]]
          /\ event' = Ev("admit", breaker.state = "open")
  /\ UNCHANGED <<now, config, clientVars>>
  /\ UNCHANGED restVars

Execute(c) == ExecuteUpTo(c, MaxRequests)

\* fn() resolves: onSuccess, the result is returned
Succeed(c) ==
  /\ calls[c].pc = "pending"
  /\ breaker' = OnSuccess(breaker, config, now)
  /\ calls' = [calls EXCEPT ![c] = IdleCall]
  /\ event' = Ev("success", calls[c].transition)
  /\ UNCHANGED <<now, config, issued, clientVars>>
  /\ UNCHANGED restVars

\* fn() rejects: onFailure, the error is re-thrown
Fail(c) ==
  /\ calls[c].pc = "pending"
  /\ breaker' = OnFailure(breaker, config, now)
  /\ calls' = [calls EXCEPT ![c] = IdleCall]
  /\ event' = Ev("failure", calls[c].transition)
  /\ UNCHANGED <<now, config, issued, clientVars>>
  /\ UNCHANGED restVars

Reset ==
  /\ breaker' = ResetBreaker(breaker)
  /\ event' = Ev("reset", FALSE)
  /\ UNCHANGED <<now, config, calls, issued, clientVars>>
  /\ UNCHANGED restVars

ForceOpen ==
  /\ breaker' = ForceOpenBreaker(breaker, config, now)
  /\ event' = Ev("forceOpen", FALSE)
  /\ UNCHANGED <<now, config, calls, issued, clientVars>>
  /\ UNCHANGED restVars

ForceClosed ==
  /\ breaker' = ForceClosedBreaker(breaker)
  /\ event' = Ev("forceClosed", FALSE)
  /\ UNCHANGED <<now, config, calls, issued, clientVars>>
  /\ UNCHANGED restVars

\* getFailureRate(): public, prunes the window as a side effect
GetFailureRate ==
  /\ breaker' = [breaker EXCEPT !.monitoringWindow =
                    CleanupOldEntries(@, config, now)]
  /\ event' = Ev("getFailureRate", FALSE)
  /\ UNCHANGED <<now, config, calls, issued, clientVars>>
  /\ UNCHANGED restVars

Tick ==
  /\ now < MaxTime
  /\ now' = now + 1
  /\ event' = Ev("tick", FALSE)
  /\ UNCHANGED <<config, breaker, calls, issued, clientVars>>
  /\ UNCHANGED restVars

Next ==
  \/ \E c \in Slots : Execute(c)
  \/ \E c \in Slots : Succeed(c)
  \/ \E c \in Slots : Fail(c)
  \/ Reset
  \/ ForceOpen
  \/ ForceClosed
  \/ GetFailureRate
  \/ Tick

Spec == Init /\ [][Next]_vars

\* ---- one caller at a time, enough calls for the rolling failure rate -------

\* CircuitBreakerFactory.getInstance: the default configuration
DefaultConfig ==
  [failureThreshold |-> 5, resetTimeout |-> 60000, monitoringPeriod |-> 300000]

\* the cooldown passes, once
Cooldown ==
  /\ now = 0
  /\ now' = now + config.resetTimeout
  /\ event' = Ev("tick", FALSE)
  /\ UNCHANGED <<config, breaker, calls, issued, clientVars>>
  /\ UNCHANGED restVars

NextLoad ==
  \/ ExecuteUpTo(1, MinSamples + 1)
  \/ Succeed(1)
  \/ Fail(1)
  \/ ForceClosed
  \/ Cooldown

InitLoad == InitIn({DefaultConfig})

SpecLoad == InitLoad /\ [][NextLoad]_vars

\* ---- price clients: getCurrentPrice / getExchangeRate ----------------------

InitClient ==
  /\ client \in {"metal", "exchange"}
  /\ config = (IF client = "metal" THEN MetalBreakerConfig
                                   ELSE ExchangeBreakerConfig)
  /\ now = RateLimit      \* Date.now() is far from the epoch: no first-call delay
  /\ breaker = NewBreaker
  /\ calls = [c \in Slots |-> IdleCall]
  /\ event = Ev("init", FALSE)
  /\ issued = 0
  /\ cache = [k \in Keys |-> NoEntry]
  /\ lastRequestTime = 0
  /\ reqs = [r \in Slots |-> IdleReq]
  /\ ret = NoRet
  /\ answers = {}
  /\ ticks = 0
  /\ InitRest

\* circuitBreaker.execute(async () => ...) up to the await on the fetch, and the
\* catch block when execute rejects the call; q is the call entering execute
ThroughBreaker(r, q) ==
  IF Rejects(breaker, now)
  THEN LET fb == CatchFallback(client, cache, q.key, now)
       IN  /\ breaker' = OnReject(breaker)
           /\ reqs' = [reqs EXCEPT ![r] = IdleReq]
           /\ ret' = Ret("fallback", fb.kind, q.key, fb.value, q.found)
           /\ event' = Ev("reject", FALSE)
           /\ UNCHANGED issued
  ELSE /\ issued < MaxFetches
       /\ issued' = issued + 1
       /\ breaker' = Admit(breaker, now)
       /\ reqs' = [reqs EXCEPT ![r] =
                     [q EXCEPT !.pc = "fetching", !.seq = issued + 1]]
       /\ ret' = NoRet
       /\ event' = Ev("admit", breaker.state = "open")

\* MetalPriceApiClient.getCurrentPrice up to its first suspension: the cache
\* check, enforceRateLimit and, when no delay is due, circuitBreaker.execute
\* (the awaits in between yield to no timer and no response)
CallPrice(r, k) ==
  /\ client = "metal"
  /\ FreeSlot(reqs, r)
  /\ LET cached == GetCachedPrice(cache, k, FALSE, now)
         since == now - lastRequestTime
         q == [IdleReq EXCEPT !.key = k, !.found = EntryAge(cache, k, now)]
     IN  IF cached # NoPrice
         THEN /\ ret' = Ret("fresh", "return", k, cached, q.found)
              /\ event' = Ev("call", FALSE)
              /\ UNCHANGED <<reqs, lastRequestTime, breaker, issued>>
         ELSE IF since < RateLimit
         THEN /\ reqs' = [reqs EXCEPT ![r] =
                            [q EXCEPT !.pc = "delay",
                                      !.wakeAt = now + (RateLimit - since)]]
              /\ ret' = NoRet
              /\ event' = Ev("call", FALSE)
              /\ UNCHANGED <<lastRequestTime, breaker, issued>>
         ELSE /\ lastRequestTime' = now
              /\ ThroughBreaker(r, q)
  /\ UNCHANGED <<now, config, calls, client, cache, answers, ticks>>
  /\ UNCHANGED restVars

\* enforceRateLimit after its delay: lastRequestTime = Date.now(); then
\* circuitBreaker.execute
Wake(r) ==
  /\ reqs[r].pc = "delay"
  /\ now >= reqs[r].wakeAt
  /\ lastRequestTime' = now
  /\ ThroughBreaker(r, [reqs[r] EXCEPT !.wakeAt = None])
  /\ UNCHANGED <<now, config, calls, client, cache, answers, ticks>>
  /\ UNCHANGED restVars

\* ExchangeRateApiClient.getExchangeRate up to its first suspension: the cache
\* check, then circuitBreaker.execute
CallRate(r, k) ==
  /\ client = "exchange"
  /\ FreeSlot(reqs, r)
  /\ LET cached == GetCachedRate(cache, k, FALSE, now)
         q == [IdleReq EXCEPT !.key = k, !.found = EntryAge(cache, k, now)]
     IN  IF cached # NoPrice
         THEN /\ ret' = Ret("fresh", "return", k, cached, q.found)
              /\ event' = Ev("call", FALSE)
              /\ UNCHANGED <<reqs, breaker, issued>>
         ELSE ThroughBreaker(r, q)
  /\ UNCHANGED <<now, config, calls, client, cache, lastRequestTime, answers,
                 ticks>>
  /\ UNCHANGED restVars

\* the fetch resolves with a price / rate: it is cached, onSuccess, returned
FetchOk(r) ==
  /\ reqs[r].pc = "fetching"
  /\ cache' = CachePrice(cache, reqs[r].key, reqs[r].seq, now)
  /\ breaker' = OnSuccess(breaker, config, now)
  /\ ret' = Ret("live", "return", reqs[r].key, reqs[r].seq, reqs[r].found)
  /\ reqs' = [reqs EXCEPT ![r] = IdleReq]
  /\ answers' = answers \cup {"ok"}
  /\ event' = Ev("success", FALSE)
  /\ UNCHANGED <<now, config, calls, issued, client, lastRequestTime, ticks>>
  /\ UNCHANGED restVars

\* the fetch resolves with null (fetchMetalPrice: 404 and the alternative URL
\* failed; fetchExchangeRate: no rate in the response): nothing is cached
FetchNull(r) ==
  /\ reqs[r].pc = "fetching"
  /\ breaker' = OnSuccess(breaker, config, now)
  /\ ret' = Ret("live", "return", reqs[r].key, NoPrice, reqs[r].found)
  /\ reqs' = [reqs EXCEPT ![r] = IdleReq]
  /\ answers' = answers \cup {"null"}
  /\ event' = Ev("success", FALSE)
  /\ UNCHANGED <<now, config, calls, issued, client, cache, lastRequestTime,
                 ticks>>
  /\ UNCHANGED restVars

\* the fetch throws: onFailure, then the catch block
FetchFail(r) ==
  /\ reqs[r].pc = "fetching"
  /\ breaker' = OnFailure(breaker, config, now)
  /\ LET fb == CatchFallback(client, cache, reqs[r].key, now)
     IN  ret' = Ret("fallback", fb.kind, reqs[r].key, fb.value, reqs[r].found)
  /\ reqs' = [reqs EXCEPT ![r] = IdleReq]
  /\ answers' = answers \cup {"fail"}
  /\ event' = Ev("failure", FALSE)
  /\ UNCHANGED <<now, config, calls, issued, client, cache, lastRequestTime,
                 ticks>>
  /\ UNCHANGED restVars

\* time passes: by the rate limit (a moment) or by the cache timeout (which
\* also outlasts the breaker's cooldown). No call is in flight for as long as
\* the cache timeout: a request ends within timeout * (retries + 1) plus the
\* backoff delays, about a minute.
Advance(d) ==
  /\ ticks < MaxTicks
  /\ d = CacheTimeout => \A r \in Slots : reqs[r].pc = "idle"
  /\ ticks' = ticks + 1
  /\ now' = now + d
  /\ ret' = NoRet
  /\ event' = Ev("tick", FALSE)
  /\ UNCHANGED <<cbVars, client, cache, lastRequestTime, reqs, answers>>
  /\ UNCHANGED restVars

NextClient ==
  \/ \E r \in Slots, k \in Keys : CallPrice(r, k)
  \/ \E r \in Slots : Wake(r)
  \/ \E r \in Slots, k \in Keys : CallRate(r, k)
  \/ \E r \in Slots : FetchOk(r)
  \/ \E r \in Slots : FetchNull(r)
  \/ \E r \in Slots : FetchFail(r)
  \/ \E d \in {RateLimit, CacheTimeout} : Advance(d)

SpecClient == InitClient /\ [][NextClient]_vars

\* ---- BaseApiClient: one get/post/put/patch/delete call at a time ------------

\* how far the clock moves in one step
TimeStep == 500

InitRetry ==
  /\ now = 0
  /\ config = DefaultConfig
  /\ breaker = NewBreaker
  /\ calls = [c \in Slots |-> IdleCall]
  /\ event = Ev("init", FALSE)
  /\ issued = 0
  /\ client = "none"
  /\ cache = [k \in Keys |-> NoEntry]
  /\ lastRequestTime = 0
  /\ reqs = [r \in Slots |-> IdleReq]
  /\ ret = NoRet
  /\ answers = {}
  /\ ticks = 0
  /\ \E r \in {None} \cup 0..MaxRetries :
       http = NewHttp(OrDefault(r, DefaultRetries),
                      OrDefault(None, DefaultRetryDelay), "default")
  /\ di = NewContainer
  /\ frames = [w \in Slots |-> IdleFrame]
  /\ fetch = NoFetch
  /\ bus = NewBus(DefaultMaxRetries, DefaultBusRetryDelay)
  /\ handles = [i \in SubIds |-> NoHandle]
  /\ loops = [l \in Loops |-> IdleDelivery]
  /\ direct = IdleDelivery
  /\ trail = NewTrail

\* setRetryConfig, between two calls
SetRetryConfig(r, cond) ==
  /\ http.pc = "idle"
  /\ http' = [http EXCEPT !.retries = r, !.retryCondition = cond]
  /\ event' = Ev("setRetryConfig", FALSE)
  /\ UNCHANGED <<now, cbVars, clientVars, diVars, fetchVars, busVars>>

\* get / post / put / patch / delete: executeWithRetry up to the await on the
\* first operation()
Request ==
  /\ http.pc = "idle"
  /\ http.calls < MaxHttpCalls
  /\ 0 <= http.retries
  /\ http' = StartCall(http)
  /\ event' = Ev("request", FALSE)
  /\ UNCHANGED <<now, cbVars, clientVars, diVars, fetchVars, busVars>>

\* operation() settles: the response is returned, or the error (as the
\* response interceptor rejected it) is caught: break and throw, or delay
Respond(o) ==
  /\ http.pc = "inflight"
  /\ IF Succeeded(o)
     THEN http' = [http EXCEPT !.pc = "idle", !.answer = o,
                               !.settled = "returned"]
     ELSE LET error == ResponseInterceptor(o)
          IN  IF \/ LastAttempt(http.attempt, http.retries)
                 \/ ~RetryCondition(http.retryCondition, error)
              THEN http' = [http EXCEPT !.pc = "idle", !.answer = o,
                                        !.lastError = error,
                                        !.settled = "thrown",
                                        !.thrown = TransformError(error)]
              ELSE http' = [http EXCEPT
                              !.pc = "delay", !.answer = o,
                              !.lastError = error, !.failedAt = now,
                              !.wakeAt = now + BackoffDelay(http.retryDelay,
                                                            http.attempt)]
  /\ event' = Ev("response", FALSE)
  /\ UNCHANGED <<now, cbVars, clientVars, diVars, fetchVars, busVars>>

\* the delay is over: attempt++, the loop condition, then the next
\* operation() or the throw after the loop
TimerFires ==
  /\ http.pc = "delay"
  /\ now >= http.wakeAt
  /\ IF http.attempt + 1 <= http.retries
     THEN http' = [http EXCEPT !.pc = "inflight", !.attempt = @ + 1,
                               !.invoked = @ + 1, !.wakeAt = None]
     ELSE http' = [http EXCEPT !.pc = "idle", !.attempt = @ + 1,
                               !.wakeAt = None, !.settled = "thrown",
                               !.thrown = TransformError(http.lastError)]
  /\ event' = Ev("timer", FALSE)
  /\ UNCHANGED <<now, cbVars, clientVars, diVars, fetchVars, busVars>>

\* time passes while the call sleeps
TimePasses ==
  /\ http.pc = "delay"
  /\ now < http.wakeAt
  /\ now' = now + TimeStep
  /\ event' = Ev("tick", FALSE)
  /\ UNCHANGED <<http, cbVars, clientVars, diVars, fetchVars, busVars>>

NextRetry ==
  \/ \E r \in 0..MaxRetries, cond \in RetryConditions : SetRetryConfig(r, cond)
  \/ Request
  \/ \E o \in AxiosOutcomes : Respond(o)
  \/ TimerFires
  \/ TimePasses

SpecRetry == InitRetry /\ [][NextRetry]_vars

\* every attempt settles (axios' timeout) and every timer fires
SpecRetryFair ==
  /\ SpecRetry
  /\ WF_vars(\E o \in AxiosOutcomes : Respond(o))
  /\ WF_vars(TimerFires)
  /\ WF_vars(TimePasses)

\* ---- MetalPriceApiClient: fetchMetalPrice through the breaker ---------------

InitFetch == InitClient /\ client = "metal"

\* getCurrentPrice on a cache miss: circuitBreaker.execute(async () => ...) up
\* to the await of fetchMetalPrice on get(`/${metal}`)
FetchMetalPrice(metal) ==
  /\ fetch.pc = "idle"
  /\ http.pc = "idle"
  /\ IF Rejects(breaker, now)
     THEN /\ breaker' = OnReject(breaker)
          /\ event' = Ev("reject", FALSE)
          /\ UNCHANGED <<issued, http, fetch>>
     ELSE /\ issued < MaxFetches
          /\ issued' = issued + 1
          /\ breaker' = Admit(breaker, now)
          /\ http' = StartCall(http)
          /\ fetch' = [pc |-> "first", metal |-> metal,
                       urls |-> <<MetalUrl(metal)>>, outcome |-> "none"]
          /\ event' = Ev("admit", breaker.state = "open")
  /\ UNCHANGED <<now, config, calls, clientVars, diVars, busVars>>

\* get() has settled: the rest of fetchMetalPrice and of the callback, then
\* onSuccess or onFailure of the breaker. A 404 of the first request starts
\* the request to the alternative URL instead.
FetchContinues ==
  /\ fetch.pc \in {"first", "alternative"}
  /\ http.pc = "idle"
  /\ http.settled \in {"returned", "thrown"}
  /\ IF http.settled = "returned"
     THEN /\ fetch' = [fetch EXCEPT !.pc = "idle", !.outcome = "price"]
          /\ cache' = CachePrice(cache, fetch.metal, issued, now)
          /\ breaker' = OnSuccess(breaker, config, now)
          /\ event' = Ev("success", FALSE)
          /\ UNCHANGED http
     ELSE IF fetch.pc = "first" /\ Is404(http)
     THEN /\ fetch' = [fetch EXCEPT !.pc = "alternative",
                                    !.urls = Append(@, SpotUrl(fetch.metal))]
          /\ http' = StartCall(http)
          /\ event' = Ev("request", FALSE)
          /\ UNCHANGED <<cache, breaker>>
     ELSE IF fetch.pc = "alternative"
     THEN /\ fetch' = [fetch EXCEPT !.pc = "idle", !.outcome = "null"]
          /\ breaker' = OnSuccess(breaker, config, now)
          /\ event' = Ev("success", FALSE)
          /\ UNCHANGED <<cache, http>>
     ELSE /\ fetch' = [fetch EXCEPT !.pc = "idle", !.outcome = "thrown"]
          /\ breaker' = OnFailure(breaker, config, now)
          /\ event' = Ev("failure", FALSE)
          /\ UNCHANGED <<cache, http>>
  /\ UNCHANGED <<now, config, calls, issued, client, lastRequestTime, reqs,
                 ret, answers, ticks, diVars, busVars>>

NextFetch ==
  \/ \E metal \in Metals : FetchMetalPrice(metal)
  \/ \E o \in AxiosOutcomes : Respond(o)
  \/ TimerFires
  \/ TimePasses
  \/ FetchContinues

SpecFetch == InitFetch /\ [][NextFetch]_vars

\* ---- DIContainer: register, resolve, scopes, dispose ------------------------

Frames == 1..MaxCalls

InitDI == InitIn({DefaultConfig})

diRest == <<now, event, cbVars, clientVars, httpVars, fetchVars, busVars>>

\* register / registerSingleton / registerTransient / registerScoped with a
\* factory or constructor
Register(t, lifecycle, deps) ==
  /\ di' = RegisterIn(di, t, lifecycle, "factory", deps, NoInst)
  /\ UNCHANGED <<frames, diRest>>

\* registerInstance with an object made by the caller
RegisterInstance(t) ==
  /\ di' = RegisterIn(di, t, "singleton", "instance", <<>>,
                      NewInst(di, <<"supplied", t>>))
  /\ UNCHANGED <<frames, diRest>>

\* resolve(t), called by the fn of withScope call w, or by other code (w = 0)
Resolve(w, t) ==
  /\ w # 0 => frames[w].pc = "running"
  /\ di' = [ResolveIn(di, t, 0).c EXCEPT !.fresh = {}]
  /\ UNCHANGED <<frames, diRest>>

\* the place a new scope object takes
FreePlace(c) ==
  CHOOSE o \in ScopeObjs :
    /\ c.heap[o] = FreeScope
    /\ \A p \in ScopeObjs : c.heap[p] = FreeScope => o <= p

\* createScope(id), called from outside; the scope object an earlier
\* createScope(id) made loses its entry in the scopes map
CreateScope(id) ==
  /\ \E o \in ScopeObjs : di.heap[o] = FreeScope
  /\ di' = Collect(CreateScopeIn(di, id, FreePlace(di), TRUE), frames)
  /\ UNCHANGED <<frames, diRest>>

\* withScope(id, fn) up to the await on fn(): scopes.get(id) || createScope(id)
WithScope(w, id) ==
  /\ FreeSlot(frames, w)
  /\ di.scopes[id] = NoScope => \E o \in ScopeObjs : di.heap[o] = FreeScope
  /\ LET c == IF di.scopes[id] # NoScope
              THEN di
              ELSE CreateScopeIn(di, id, FreePlace(di), FALSE)
     IN  /\ frames' = [frames EXCEPT ![w] =
                         [pc |-> "running", id |-> id, scope |-> c.scopes[id],
                          previous |-> di.currentScope]]
         /\ di' = [c EXCEPT !.currentScope = c.scopes[id]]
  /\ UNCHANGED diRest

\* fn() settles (returns or throws): the finally block
EndScope(w) ==
  /\ frames[w].pc = "running"
  /\ frames' = [frames EXCEPT ![w] = IdleFrame]
  /\ di' = Collect([di EXCEPT !.currentScope = frames[w].previous], frames')
  /\ UNCHANGED diRest

\* scope.dispose() on a scope object that createScope returned
ScopeDispose(obj) ==
  /\ di.heap[obj].held
  /\ di' = Collect(DisposeScope(di, obj), frames)
  /\ UNCHANGED <<frames, diRest>>

\* dispose(), with every teardown settling before anything else runs
Dispose ==
  /\ di' = Collect(DisposeAll(di), frames)
  /\ UNCHANGED <<frames, diRest>>

\* one withScope call at a time; A may depend on B
NextDI ==
  \/ \E l \in Lifecycles, td \in {<<"A", <<>>>>, <<"A", <<"B">>>>, <<"B", <<>>>>} :
       Register(td[1], l, td[2])
  \/ \E t \in Tokens : RegisterInstance(t)
  \/ \E w \in {0, 1}, t \in Tokens : Resolve(w, t)
  \/ \E id \in ScopeIds : WithScope(1, id)
  \/ EndScope(1)
  \/ Dispose

SpecDI == InitDI /\ [][NextDI]_vars

\* a scoped token and the scope objects callers create and dispose
NextScoped ==
  \/ \E deps \in {<<>>, <<"B">>} : Register("A", "scoped", deps)
  \/ \E l \in Lifecycles : Register("B", l, <<>>)
  \/ \E w \in {0, 1}, t \in Tokens : Resolve(w, t)
  \/ \E id \in ScopeIds : CreateScope(id)
  \/ \E id \in ScopeIds : WithScope(1, id)
  \/ EndScope(1)
  \/ \E obj \in ScopeObjs : ScopeDispose(obj)
  \/ Dispose

SpecScoped == InitDI /\ [][NextScoped]_vars

\* overlapping withScope calls that resolve a scoped token
NextScopes ==
  \/ Register("A", "scoped", <<>>)
  \/ \E w \in {0} \cup Frames : Resolve(w, "A")
  \/ \E w \in Frames, id \in ScopeIds : WithScope(w, id)
  \/ \E w \in Frames : EndScope(w)

SpecScopes == InitDI /\ [][NextScopes]_vars

\* dependency graphs with cycles
NextCycle ==
  \/ \E t \in Tokens, l \in Lifecycles, deps \in DependencyLists :
       Register(t, l, deps)
  \/ \E t \in Tokens : Resolve(0, t)

SpecCycle == InitDI /\ [][NextCycle]_vars

\* ---- EventBus: subscribe, publish, the drain loop ---------------------------

busRest == <<now, event, cbVars, clientVars, httpVars, diVars, fetchVars>>

InitBus == InitIn({DefaultConfig})

\* subscribe(eventType, handler)
Subscribe(type, h) ==
  /\ \E id \in SubIds :
       /\ handles[id].state = "none"
       /\ \A j \in 1..(id - 1) : handles[j].state # "none"
       /\ bus' = SubscribeIn(bus, type, id)
       /\ handles' = [handles EXCEPT ![id] =
                        [eventType |-> type, handler |-> h, state |-> "active"]]
  /\ UNCHANGED <<loops, direct, trail, busRest>>

\* subscription.unsubscribe(): this.unsubscribe(eventType, subscriptionId)
Unsubscribe(id) ==
  /\ handles[id].state # "none"
  /\ bus' = UnsubscribeIn(bus, handles[id].eventType, id)
  /\ handles' = [handles EXCEPT ![id].state = "removed"]
  /\ UNCHANGED <<loops, direct, trail, busRest>>

\* clear()
Clear ==
  /\ bus' = ClearIn(bus)
  /\ UNCHANGED <<handles, loops, direct, trail, busRest>>

\* the subscriptions whose handlers may throw when the head of the queue is
\* delivered
MayThrow(b) ==
  IF b.eventQueue = <<>> THEN {{}}
  ELSE SUBSET Subscribers(b, Head(b.eventQueue).event.type)

\* processQueue, one turn of while (this.eventQueue.length > 0): the head is
\* shifted and publishSync runs up to its await, or the loop ends and the
\* finally block runs
Iterate(b, tr, throws) ==
  IF b.eventQueue = <<>>
  THEN [bus |-> Finish(b), loop |-> IdleDelivery, trail |-> tr]
  ELSE LET item == Head(b.eventQueue)
           d == Deliver(b, item, throws)
       IN  [bus |-> [b EXCEPT !.eventQueue = Tail(@)],
            loop |-> d,
            trail |-> ErrorHandler(
                        [tr EXCEPT !.started = Append(@, item.event.seq)],
                        item.event, Cardinality(d.rejected))]

\* processQueue: if (this.processing) return
AlreadyProcessing(b) == b.processing

\* publish(event): the event is pushed; when no loop is processing,
\* processQueue runs up to its first await. At most max events are published
\* in a run
PublishUpTo(type, max) ==
  /\ trail.published < max
  /\ LET e == Event(type, trail.published + 1)
         tr == [trail EXCEPT !.published = @ + 1]
         b == [bus EXCEPT !.eventQueue = Enqueue(@, e)]
     IN  IF NotProcessing(bus) /\ ~AlreadyProcessing(bus)
         THEN \E l \in Loops, throws \in MayThrow(b) :
                /\ loops[l].pc = "idle"
                /\ \A j \in 1..(l - 1) : loops[j].pc # "idle"
                /\ LET it == Iterate([b EXCEPT !.processing = TRUE], tr, throws)
                   IN  /\ bus' = it.bus
                       /\ loops' = [loops EXCEPT ![l] = it.loop]
                       /\ trail' = it.trail
         ELSE /\ bus' = b
              /\ trail' = tr
              /\ UNCHANGED loops
  /\ UNCHANGED <<handles, direct, busRest>>

Publish(type) == PublishUpTo(type, MaxPublishes)

\* the promise of one handler settles; executeHandler's catch calls the
\* errorHandler when it rejected. l = 0: the caller's publishSync
Settle(l, id, ok) ==
  /\ LET d == IF l = 0 THEN direct ELSE loops[l]
         after == [d EXCEPT !.pending = @ \ {id},
                            !.rejected = IF ok THEN @ ELSE @ \cup {id}]
     IN  /\ id \in d.pending
         /\ IF l = 0
            THEN direct' = after /\ UNCHANGED loops
            ELSE loops' = [loops EXCEPT ![l] = after] /\ UNCHANGED direct
         /\ trail' = IF ok THEN trail ELSE ErrorHandler(trail, d.item.event, 1)
  /\ UNCHANGED <<bus, handles, busRest>>

\* processQueue resumes: after await publishSync (the catch and
\* handleEventError when it rejected), or after the retry delay (the item is
\* unshifted); then the next turn of the loop
DrainStep(l) ==
  /\ loops[l].pc \in {"delivering", "retryDelay"}
  /\ Settled(loops[l])
  /\ LET d == loops[l]
         failed == d.pc = "delivering" /\ AllSettled(d.rejected) = "rejected"
     IN  IF failed /\ d.item.retryCount < bus.maxRetries
         THEN /\ loops' = [loops EXCEPT ![l] = RetryLater(bus, d)]
              /\ UNCHANGED <<bus, trail>>
         ELSE LET b == IF d.pc = "retryDelay"
                       THEN [bus EXCEPT !.eventQueue = <<d.item>> \o @]
                       ELSE bus
                  tr == IF failed THEN ErrorHandler(trail, d.item.event, 1)
                        ELSE trail
              IN  \E throws \in MayThrow(b) :
                    LET it == Iterate(b, tr, throws)
                    IN  /\ bus' = it.bus
                        /\ loops' = [loops EXCEPT ![l] = it.loop]
                        /\ trail' = it.trail
  /\ UNCHANGED <<handles, direct, busRest>>

\* publishSync(event) called by a caller, up to its await (it returns at once
\* when the type has no subscription)
PublishSync(type) ==
  /\ direct.pc = "idle"
  /\ \E throws \in SUBSET Subscribers(bus, type) :
       LET d == Deliver(bus, Item(Event(type, 0), 0), throws)
       IN  direct' = IF d.invoked = <<>>
                     THEN [IdleDelivery EXCEPT !.result = "fulfilled"]
                     ELSE d
  /\ UNCHANGED <<bus, handles, loops, trail, busRest>>

\* the caller's publishSync resumes after await Promise.allSettled
PublishSyncReturns ==
  /\ direct.pc = "delivering"
  /\ Settled(direct)
  /\ direct' = [direct EXCEPT !.pc = "idle",
                              !.result = AllSettled(direct.rejected)]
  /\ UNCHANGED <<bus, handles, loops, trail, busRest>>

NextBus ==
  \/ \E type \in EventTypes, h \in Handlers : Subscribe(type, h)
  \/ \E id \in SubIds : Unsubscribe(id)
  \/ Clear
  \/ \E type \in EventTypes : PublishUpTo(type, 1)
  \/ \E l \in {0} \cup Loops, id \in SubIds, ok \in BOOLEAN : Settle(l, id, ok)
  \/ \E l \in Loops : DrainStep(l)
  \/ \E type \in EventTypes : PublishSync(type)
  \/ PublishSyncReturns

SpecBus == InitBus /\ [][NextBus]_vars

\* publish and the drain loop; clear() is not called
NextDrain ==
  \/ \E type \in EventTypes, h \in Handlers : Subscribe(type, h)
  \/ \E id \in SubIds : Unsubscribe(id)
  \/ \E type \in EventTypes : Publish(type)
  \/ \E l \in Loops, id \in SubIds, ok \in BOOLEAN : Settle(l, id, ok)
  \/ \E l \in Loops : DrainStep(l)

SpecDrain == InitBus /\ [][NextDrain]_vars

\* every handler invocation terminates, and the loop resumes after its awaits
SpecDrainFair ==
  /\ SpecDrain
  /\ WF_vars(\E l \in Loops, id \in SubIds, ok \in BOOLEAN : Settle(l, id, ok))
  /\ WF_vars(\E l \in Loops : DrainStep(l))

\* ---- claims about the CircuitBreaker -------------------------------------

HalfOpenPending ==
  {c \in Slots : calls[c].pc = "pending" /\ calls[c].admitted = "half-open"}

\* C1: a failed execute call that leaves failureCount >= failureThreshold
\* leaves the breaker open with nextRetryTime = (time of the failure) +
\* resetTimeout; so failureThreshold consecutive failures on a fresh breaker
\* open it.
C1_ThresholdOpens ==
  (event.op = "failure" /\ breaker.failureCount >= config.failureThreshold)
    => (/\ breaker.state = "open"
        /\ breaker.nextRetryTime = now + config.resetTimeout)

\* failureThreshold = 2 failures and nothing else on a fresh breaker
C1_Witness ==
  /\ event.op = "failure"
  /\ config.failureThreshold = 2
  /\ breaker.failureCount = 2
  /\ breaker.successCount = 0
  /\ breaker.totalRequests = 2
  /\ breaker.state = "open"

\* C2: an execute call made while the breaker is open and now < nextRetryTime
\* is rejected: fn is not invoked (no caller becomes pending) and no field of
\* the breaker changes.
C2_RejectIsFrameless ==
  [][(event'.op \in {"admit", "reject"}
        /\ breaker.state = "open" /\ now < breaker.nextRetryTime)
       => (event'.op = "reject" /\ breaker' = breaker /\ calls' = calls)]_vars

C2_Witness ==
  /\ event.op = "reject"
  /\ breaker.state = "open"
  /\ now < breaker.nextRetryTime
  /\ breaker.totalRequests = 1

\* C3 as stated: the success of the call that made the open -> half-open
\* transition leaves the breaker closed with failureCount = 0 and
\* nextRetryTime cleared.
C3_ProbeSuccessCloses ==
  (event.op = "success" /\ event.probe)
    => (/\ breaker.state = "closed"
        /\ breaker.failureCount = 0
        /\ breaker.nextRetryTime = None)

\* C3 amended: an execute call on an open breaker at a time >= nextRetryTime
\* is admitted (the state becomes half-open and fn is invoked); if fn
\* succeeds while the breaker is still half-open, the breaker ends closed
\* with failureCount = 0 and nextRetryTime cleared.
C3_ProbeSuccessClosesIfStillHalfOpen ==
  [][/\ ((event'.op \in {"admit", "reject"}
            /\ breaker.state = "open" /\ breaker.nextRetryTime # None
            /\ now >= breaker.nextRetryTime)
          => (/\ event' = Ev("admit", TRUE)
              /\ breaker'.state = "half-open"
              /\ \E c \in Slots :
                    calls[c].pc = "idle" /\ calls'[c].pc = "pending"))
     /\ ((event' = Ev("success", TRUE) /\ breaker.state = "half-open")
          => (/\ breaker'.state = "closed"
              /\ breaker'.failureCount = 0
              /\ breaker'.nextRetryTime = None))]_vars

\* the probe of a breaker opened by a failure has succeeded and closed it
C3_Witness ==
  /\ event = Ev("success", TRUE)
  /\ breaker.state = "closed"
  /\ breaker.failureCount = 0
  /\ breaker.nextRetryTime = None
  /\ breaker.lastFailureTime # None
  /\ breaker.successCount = 1
  /\ breaker.totalRequests = 2

\* C4: at most one call admitted in half-open state is in flight.
C4_SingleTrialCall == Cardinality(HalfOpenPending) <= 1

\* C5: a call that fails while the breaker is half-open leaves it open with
\* nextRetryTime = now + resetTimeout.
C5_HalfOpenFailureReopens ==
  [][(event'.op = "failure" /\ breaker.state = "half-open")
       => (/\ breaker'.state = "open"
           /\ breaker'.nextRetryTime = now + config.resetTimeout)]_vars

\* C6: an open breaker has nextRetryTime set; whenever nextRetryTime is set
\* its value is (the time of that step) + resetTimeout; half-open is entered
\* only from open, by an execute call made at a time >= nextRetryTime.
C6_OpenRetryTimeAndHalfOpenEntry ==
  /\ [](breaker.state = "open"
          => (/\ breaker.nextRetryTime # None
              /\ breaker.nextRetryTime - config.resetTimeout \in 0..now))
  /\ [][/\ ((/\ breaker'.nextRetryTime # None
              /\ \/ breaker'.nextRetryTime # breaker.nextRetryTime
                 \/ (breaker'.state = "open" /\ breaker.state # "open"))
             => breaker'.nextRetryTime = now + config.resetTimeout)
         /\ ((breaker'.state = "half-open" /\ breaker.state # "half-open")
             => (/\ breaker.state = "open"
                 /\ event'.op = "admit"
                 /\ breaker.nextRetryTime # None
                 /\ now >= breaker.nextRetryTime))]_vars

\* a probe has just been admitted from a breaker opened by forceOpen
C6_Witness ==
  /\ event = Ev("admit", TRUE)
  /\ breaker.state = "half-open"
  /\ breaker.failureCount = 0
  /\ breaker.nextRetryTime # None
  /\ now >= breaker.nextRetryTime

\* ---- claims about the price clients ---------------------------------------

\* a getCurrentPrice / getExchangeRate call for key k starts in this step:
\* it becomes pending, or it returns at once (no pending call changes)
CallStep(k) ==
  \/ \E r \in Slots : /\ reqs[r].pc = "idle"
                      /\ reqs'[r].pc # "idle"
                      /\ reqs'[r].key = k
  \/ (ret' # NoRet /\ reqs' = reqs /\ ret'.key = k)

\* slot r issues its live fetch in this step
Enters(r) == reqs'[r].pc = "fetching" /\ reqs[r].pc # "fetching"

\* C7: getCurrentPrice / getExchangeRate never reject; when the live fetch
\* throws or the breaker rejects the call, they return the cached entry of the
\* key if there is one (expired or not) and null otherwise.
C7_FallbackNeverRejects ==
  ret # NoRet
    => (/\ ret.kind = "return"
        /\ ret.how = "fallback"
             => ret.value = (IF cache[ret.key] = NoEntry THEN NoPrice
                             ELSE cache[ret.key].data))

\* a failed fetch has just returned the expired entry
C7_Witness ==
  /\ ret # NoRet
  /\ ret.how = "fallback"
  /\ event.op = "failure"
  /\ ret.found = "expired"
  /\ ret.value # NoPrice

\* C8, first half: a call that finds a fresh entry (now - timestamp <
\* cacheTimeout) returns its data, issues no fetch, does not touch the breaker
\* and leaves cache and lastRequestTime unchanged.
FreshHitIsFrameless ==
  \A k \in Keys :
    (CallStep(k) /\ EntryAge(cache, k, now) = "fresh")
      => (/\ ret' = Ret("fresh", "return", k, cache[k].data, "fresh")
          /\ UNCHANGED <<breaker, issued, cache, lastRequestTime, reqs>>)

\* C8 as stated: the first half, and a call made after the entry has expired
\* (now - timestamp > cacheTimeout) issues a new live fetch: it is never turned
\* away by the breaker.
C8_FreshHitAndRefetch ==
  /\ [][FreshHitIsFrameless]_vars
  /\ [](~(ret # NoRet /\ ret.found = "expired" /\ event.op = "reject"))

\* C8 amended: the first half, and a call made after the entry has expired
\* does not return from the fresh path: it goes (after the rate-limit delay)
\* through the circuit breaker, and a live fetch is issued exactly when the
\* breaker admits the call; a rejected call issues none.
C8_FreshHitAndRefetchIfAdmitted ==
  [][/\ FreshHitIsFrameless
     /\ \A k \in Keys :
          (CallStep(k) /\ EntryAge(cache, k, now) = "expired")
            => (\/ \E r \in Slots : /\ reqs[r].pc = "idle"
                                    /\ reqs'[r].pc \in {"delay", "fetching"}
                                    /\ reqs'[r].found = "expired"
                \/ (/\ Rejects(breaker, now)
                    /\ ret'.how = "fallback"
                    /\ ret'.found = "expired"))
     /\ \A r \in Slots :
          Enters(r) => (~Rejects(breaker, now) /\ issued' = issued + 1)
     /\ event'.op = "reject" => (Rejects(breaker, now) /\ issued' = issued)
    ]_vars

\* the second fetch, issued by a call that found the expired entry
C8_Witness ==
  /\ event.op = "admit"
  /\ issued = 2
  /\ \E r \in Slots : reqs[r].pc = "fetching" /\ reqs[r].found = "expired"

\* C9: with an empty cache at the start and an upstream that has only answered
\* successfully, calls for one key started within cacheTimeout of each other
\* cause one live fetch in all (overlapping calls included).
C9_OneFetchWithinTimeout ==
  (answers \subseteq {"ok"} /\ now - RateLimit < CacheTimeout) => issued <= 1

\* C10: the fresh-cache path never returns an entry whose age is >=
\* cacheTimeout (the boundary now - timestamp = cacheTimeout included).
C10_BoundaryIsNotFresh ==
  (ret # NoRet /\ ret.how = "fresh") => ret.found = "fresh"

\* a call is handed to the circuit breaker in this step (admitted or rejected)
Handed == event'.op \in {"admit", "reject"}

\* C11: for one MetalPriceApiClient, any two calls handed to the circuit
\* breaker after enforceRateLimit are at least rateLimit apart, under any
\* interleaving of concurrent getCurrentPrice calls.
C11_FetchesSpacedByRateLimit ==
  [][(client = "metal" /\ Handed /\ lastRequestTime # 0)
       => now - lastRequestTime >= RateLimit]_vars

\* ---- claims about BaseApiClient --------------------------------------------

\* the shape of an ApiError
Normalized(e) ==
  /\ e.response = None
  /\ ~e.request
  /\ e.code \in {"", "NETWORK_ERROR", "UNKNOWN_ERROR"}

\* the call makes its next attempt in this step
Retries == http.pc = "delay" /\ http'.pc = "inflight"

\* the call settles in this step
Settles == http.pc # "idle" /\ http'.pc = "idle"

\* C12: one get/post/put/patch/delete call invokes the HTTP operation at most
\* retries + 1 times; attempt k + 1 is made only if attempt k failed with an
\* error for which retryCondition holds, and only retryDelay * k after it; the
\* call returns on the first successful attempt and otherwise throws a
\* normalized error after its last attempt; it always terminates.
C12_BoundedRetries ==
  /\ [](http.pc # "idle" => http.invoked <= http.retries + 1)
  /\ [][Retries =>
          (/\ ~Succeeded(http.answer)
           /\ RetryCondition(http.retryCondition, http.lastError)
           /\ now >= http.failedAt + http.retryDelay * http.invoked)]_vars
  /\ [][Settles =>
          (/\ http'.invoked = http.invoked
           /\ IF Succeeded(http'.answer)
              THEN http'.settled = "returned"
              ELSE http'.settled = "thrown" /\ Normalized(http'.thrown))]_vars
  /\ [][(http.pc = "inflight" /\ http'.pc # "inflight"
           /\ Succeeded(http'.answer)) => Settles]_vars
  /\ ((http.pc # "idle") ~> (http.pc = "idle"))

\* a call that used every attempt, with a backoff before each retry, and threw
C12_Witness ==
  /\ http.pc = "idle"
  /\ http.settled = "thrown"
  /\ http.retries >= 2
  /\ http.invoked = http.retries + 1
  /\ now >= http.retryDelay * 3

\* C13: a request answered with an HTTP status in [400, 500) is attempted
\* exactly once: the call throws in the step that receives the answer, without
\* a backoff delay and without a retry (default retryCondition).
C13_ClientErrorNotRetried ==
  [][(/\ http.pc = "inflight"
      /\ http.retryCondition = "default"
      /\ http'.pc # "inflight"
      /\ http'.answer.response # None
      /\ http'.answer.response >= 400
      /\ http'.answer.response < 500)
       => (Settles /\ http'.settled = "thrown")]_vars

\* ---- claims about the DIContainer ------------------------------------------

\* the tokens descriptor t makes the container resolve
DepsOf(c, t) ==
  IF c.services[t].make = "factory"
  THEN {c.services[t].deps[i] : i \in DOMAIN c.services[t].deps}
  ELSE {}

RECURSIVE ReachWithin(_, _, _)
ReachWithin(c, ts, n) ==
  IF n = 0 THEN ts
  ELSE ReachWithin(c, ts \cup UNION {DepsOf(c, u) : u \in ts}, n - 1)

\* the tokens the resolution of t depends on
Reach(c, t) == ReachWithin(c, DepsOf(c, t), Cardinality(Tokens))

\* the dependency graph of t contains a cycle
OnCycle(c, t) == \E u \in {t} \cup Reach(c, t) : u \in Reach(c, u)

\* the instances kept in singletons or in a scope object
Stored(c) ==
  SingletonsOf(c) \cup UNION {InstancesOf(c.heap[o]) : o \in ScopeObjs}

NoSingletons(c) == \A t \in Tokens : c.singletons[t] = NoInst

\* C14: while its lifecycle is singleton (acyclic graph), a token's factory is
\* invoked at most once and every resolve of it, direct or nested, inside or
\* outside a scope, returns the one instance kept in singletons, until
\* dispose(); every resolve of a transient token invokes the factory again
\* and its instance is kept neither in singletons nor in a scope.
C14_SingletonOnceTransientAlways ==
  /\ [](\A t \in Tokens :
         (di.services[t] # NoService /\ ~OnCycle(di, t)) =>
           LET r == ResolveIn(di, t, 0)
           IN  \A i \in DOMAIN r.trace :
                 LET e == r.trace[i]
                 IN  /\ (e.lifecycle = "singleton") =>
                          (/\ e.inst = r.c.singletons[e.token]
                           /\ (di.singletons[e.token] # NoInst) =>
                                (e.inst = di.singletons[e.token] /\ ~e.fresh)
                           /\ \A j \in DOMAIN r.trace :
                                (j < i /\ r.trace[j].token = e.token)
                                  => ~e.fresh)
                     /\ (e.lifecycle = "transient") =>
                          (/\ e.fresh
                           /\ e.inst \notin Stored(r.c)
                           /\ \A j \in DOMAIN r.trace :
                                (j # i) => (r.trace[j].inst # e.inst)))
  /\ [][\A t \in Tokens :
          (di.singletons[t] # NoInst) =>
            (di'.singletons[t] = di.singletons[t] \/ NoSingletons(di'))]_vars

\* a singleton that depends on a singleton, both resolved, inside a scope,
\* next to a transient token
C14_Witness ==
  /\ di.services["A"].lifecycle = "singleton"
  /\ di.services["A"].deps = <<"B">>
  /\ di.singletons["A"] # NoInst
  /\ di.singletons["B"] # NoInst
  /\ di.services["B"].lifecycle = "transient"
  /\ di.currentScope # NoScope

\* what resolve returns for scoped tokens in this state: with a current scope
\* the instance kept in that scope object and nowhere else, made only if the
\* scope had none; with no current scope a new instance kept nowhere
ScopedResolution ==
  \A t \in Tokens :
    LET r == ResolveIn(di, t, 0)
        o == di.currentScope
    IN  \A i \in DOMAIN r.trace :
          LET e == r.trace[i]
          IN  (e.lifecycle = "scoped") =>
                IF o # NoScope
                THEN /\ e.inst = r.c.heap[o].instances[e.token]
                     /\ (di.heap[o].instances[e.token] # NoInst) =>
                          (e.inst = di.heap[o].instances[e.token] /\ ~e.fresh)
                     /\ e.inst \notin SingletonsOf(r.c)
                     /\ \A p \in ScopeObjs \ {o} :
                          e.inst \notin InstancesOf(r.c.heap[p])
                ELSE /\ e.fresh
                     /\ e.inst \notin Stored(r.c)

\* two scope objects share no instance
ScopesApart ==
  \A o, p \in ScopeObjs :
    (o # p) => (InstancesOf(di.heap[o]) \cap InstancesOf(di.heap[p]) = {})

Disposed(scope) == \A t \in Tokens : scope.instances[t] = NoInst

\* C15 as stated: all resolve calls of a scoped token made while a given scope
\* is current return the same instance, kept in that scope only; two scopes
\* give different instances; with no current scope every resolve returns a
\* new instance kept nowhere.
C15_ScopedPerScope ==
  /\ [](ScopedResolution /\ ScopesApart)
  /\ [][\A o \in ScopeObjs, t \in Tokens :
          (/\ di.currentScope = o
           /\ di'.currentScope = o
           /\ di.heap[o].instances[t] # NoInst)
            => (di'.heap[o].instances[t] = di.heap[o].instances[t])]_vars

\* C15, amended: the same, as long as neither scope.dispose() nor dispose()
\* empties the current scope in between.
C15_ScopedPerScopeUntilDisposed ==
  /\ [](ScopedResolution /\ ScopesApart)
  /\ [][\A o \in ScopeObjs, t \in Tokens :
          (/\ di.currentScope = o
           /\ di'.currentScope = o
           /\ di.heap[o].instances[t] # NoInst)
            => (\/ di'.heap[o].instances[t] = di.heap[o].instances[t]
                \/ Disposed(di'.heap[o]))]_vars

\* a scoped token resolved in two scopes, one of them current
C15_Witness ==
  /\ di.services["A"].lifecycle = "scoped"
  /\ \E o, p \in ScopeObjs :
       /\ o # p
       /\ di.currentScope = o
       /\ di.heap[o].instances["A"] # NoInst
       /\ di.heap[p].instances["A"] # NoInst

\* C16: every resolve of a scoped token executed by the fn of a withScope(id,
\* fn) call, also after its await points and while other withScope calls have
\* started or finished, reads and keeps its instance in scope id only.
C16_ResolveUsesOwnScope ==
  \A w \in Frames, t \in Tokens :
    (frames[w].pc = "running") =>
      LET r == ResolveIn(di, t, 0)
      IN  \A i \in DOMAIN r.trace :
            (r.trace[i].lifecycle = "scoped") =>
              (/\ r.trace[i].scope = frames[w].scope
               /\ r.trace[i].inst =
                    r.c.heap[frames[w].scope].instances[r.trace[i].token])

\* C17: whenever no withScope call is in progress no scope is current, and a
\* resolve of a scoped token behaves as outside any scope.
C17_NoScopeAfterAllCompleted ==
  (\A w \in Frames : frames[w].pc = "idle") =>
    (/\ di.currentScope = NoScope
     /\ \A t \in Tokens :
          LET r == ResolveIn(di, t, 0)
          IN  \A i \in DOMAIN r.trace :
                (r.trace[i].lifecycle = "scoped") =>
                  (r.trace[i].fresh /\ r.trace[i].inst \notin Stored(r.c)))

\* C18: resolve of a token whose dependency graph contains a cycle throws an
\* error that reports the cycle; it does not recurse until the stack is
\* exhausted.
C18_CycleIsReported ==
  \A t \in Tokens :
    (di.services[t] # NoService /\ OnCycle(di, t))
      => (ResolveIn(di, t, 0).result = "CycleError")

\* C19: register constructs nothing, and once register(token, d2) has replaced
\* a descriptor d1 the next resolve(token) produces its result from d2: the
\* instance d2 supplies, or a new object made by d2's factory.
C19_ResolveUsesNewDescriptor ==
  [][\A t \in Tokens :
       (/\ di.services[t] # NoService
        /\ di'.services[t] # NoService
        /\ di'.services[t] # di.services[t])
         => (/\ di'.singletons = di.singletons
             /\ di'.heap = di.heap
             /\ LET r == ResolveIn(di', t, 0)
                IN  (r.result = "ok") =>
                      IF di'.services[t].make = "instance"
                      THEN r.inst = di'.services[t].instance
                      ELSE r.trace[Len(r.trace)].fresh)]_vars

\* the disposable instances the container holds: those of its scopes, its
\* singletons, and the instances supplied through registerInstance
Held(c) ==
  (ScopesInstances(c) \cup SingletonsOf(c)
     \cup {c.services[t].instance : t \in Tokens}) \ {NoInst}

\* C20: dispose() invokes the teardown of every instance the container holds
\* exactly once and leaves services, singletons and scopes empty; a second
\* dispose() invokes no teardown.
C20_DisposeTearsDownEverything ==
  /\ \A i \in Held(di) : Teardowns(di, i) = 1
  /\ LET c == DisposeAll(di)
     IN  /\ \A t \in Tokens : c.services[t] = NoService
         /\ NoSingletons(c)
         /\ ScopesOf(c) = {}
         /\ \A i \in Held(di) : Teardowns(c, i) = 0

\* ---- claims about the counters and the probe of the CircuitBreaker ----------

\* C27: between two reset() calls none of failureCount, successCount and
\* totalRequests ever decreases, whatever execute, forceOpen and forceClosed do.
C27_CountersMonotonic ==
  [][(event'.op # "reset") =>
       (/\ breaker'.failureCount >= breaker.failureCount
        /\ breaker'.successCount >= breaker.successCount
        /\ breaker'.totalRequests >= breaker.totalRequests)]_vars

\* C29: the success of a call that was admitted while the breaker was closed
\* leaves a half-open breaker half-open and does not clear failureCount; only
\* the success of a call admitted as a probe closes it.
C29_OnlyProbeCloses ==
  [][\A c \in Slots :
       (/\ event'.op = "success"
        /\ calls[c].pc = "pending"
        /\ calls'[c].pc = "idle"
        /\ calls[c].admitted = "closed"
        /\ breaker.state = "half-open")
         => (/\ breaker'.state = "half-open"
             /\ breaker'.failureCount = breaker.failureCount)]_vars

\* ---- claims about fetchMetalPrice -------------------------------------------

\* C30: when the request for /{metal} is answered with status 404,
\* fetchMetalPrice requests /spot/{metal}; that request's price is returned if
\* it succeeds and null if it fails, and the breaker records a success.
C30_AlternativeUrlOn404 ==
  [][/\ (/\ fetch.pc = "first"
         /\ http.pc = "idle"
         /\ http.settled = "thrown"
         /\ http.answer.response = 404
         /\ fetch' # fetch)
          => (/\ fetch'.pc = "alternative"
              /\ fetch'.urls = <<MetalUrl(fetch.metal), SpotUrl(fetch.metal)>>
              /\ http'.pc = "inflight")
     /\ (fetch.pc = "alternative" /\ fetch'.pc = "idle")
          => (/\ fetch'.outcome =
                   (IF http.settled = "returned" THEN "price" ELSE "null")
              /\ event'.op = "success")]_vars

\* ---- claims about the EventBus ----------------------------------------------

Range(q) == {q[i] : i \in DOMAIN q}

\* the drain loops that are running
Running == {l \in Loops : loops[l].pc # "idle"}

\* d is a delivery that the step has just started
Starts(before, d) ==
  /\ d.pc = "delivering"
  /\ d # before
  /\ d.invoked # before.invoked \/ d.item # before.item

\* the handler of every subscription in ids was invoked once
EachOnce(invoked, ids) ==
  /\ Len(invoked) = Cardinality(ids)
  /\ Range(invoked) = ids

\* C21: when the only handler of a queued event throws and retries are left,
\* the loop re-delivers that event (after the retry delay) before it delivers
\* any later event.
C21_RetryBeforeNextEvent ==
  [][\A l \in Loops :
       (/\ loops[l].pc = "delivering"
        /\ loops[l].pending = {}
        /\ Len(loops[l].invoked) = 1
        /\ loops[l].rejected # {}
        /\ loops[l].item.retryCount < bus.maxRetries
        /\ loops'[l] # loops[l])
         => (/\ loops'[l].pc = "retryDelay"
             /\ loops'[l].item.event = loops[l].item.event)]_vars

\* how many deliveries of published event n the drain loop has started
Attempts(n) ==
  Cardinality({i \in DOMAIN trail.started : trail.started[i] = n})

\* C22: the errorHandler is called for a published event only after its last
\* attempt, that is, when the event has been attempted maxRetries + 1 times.
C22_ErrorHandlerAfterLastAttempt ==
  \A n \in 1..MaxPublishes :
    (trail.errorCalls[n] > 0) => (Attempts(n) = bus.maxRetries + 1)

\* C23: published events are delivered in the order they were enqueued, a
\* delivery starts only when every handler invocation of the previous one has
\* settled, and at most one drain loop runs.
C23_SequentialInOrder ==
  /\ [](/\ Cardinality(Running) <= 1
        /\ bus.processing <=> Running # {}
        /\ \A i \in DOMAIN trail.started : trail.started[i] = i)
  /\ [][(trail'.started # trail.started)
          => \A l \in Loops : loops[l].pending = {}]_vars

C23_Witness ==
  /\ bus.eventQueue # <<>>
  /\ trail.started = <<1>>
  /\ \E l \in Loops : loops[l].pending # {}

\* C24: a delivery (publishSync, or one turn of the drain loop) invokes the
\* handler of every subscription of the event's type exactly once, whether or
\* not other handlers throw or reject, and publishSync does not reject.
C24_EveryHandlerOnce ==
  /\ [][/\ \A l \in Loops :
             Starts(loops[l], loops'[l]) =>
               EachOnce(loops'[l].invoked,
                        Subscribers(bus, loops'[l].item.event.type))
        /\ Starts(direct, direct') =>
             EachOnce(direct'.invoked,
                      Subscribers(bus, direct'.item.event.type))]_vars
  /\ [](direct.result # "rejected")

C24_Witness ==
  /\ direct.pc = "idle"
  /\ direct.result = "fulfilled"
  /\ Len(direct.invoked) = 2
  /\ direct.invoked[1] \in direct.rejected
  /\ direct.invoked[2] \notin direct.rejected

\* C25: unsubscribe() of a subscription removes that registration and no
\* other, a second unsubscribe() changes nothing, and no delivery that starts
\* afterwards invokes the removed subscription.
C25_UnsubscribeExactlyOne ==
  /\ [](\A id \in SubIds :
          (handles[id].state # "none") =>
            LET after == UnsubscribeIn(bus, handles[id].eventType, id)
            IN  /\ \A t \in EventTypes :
                     Subscribers(after, t) = Subscribers(bus, t) \ {id}
                /\ after.eventQueue = bus.eventQueue
                /\ after.processing = bus.processing
                /\ (handles[id].state = "removed") => (after = bus))
  /\ [][/\ \A l \in Loops :
             Starts(loops[l], loops'[l]) =>
               \A i \in Range(loops'[l].invoked) : handles[i].state = "active"
        /\ Starts(direct, direct') =>
             \A i \in Range(direct'.invoked) : handles[i].state = "active"]_vars

C25_Witness ==
  \E id \in SubIds, other \in SubIds :
    /\ handles[id].state = "removed"
    /\ handles[other].state = "active"
    /\ handles[other].eventType = handles[id].eventType
    /\ handles[other].handler = handles[id].handler
    /\ direct.pc = "delivering"
    /\ direct.invoked = <<other>>

\* C26: no event type is a key of subscriptions with an empty collection, so
\* eventTypeCount counts the types that have a subscriber.
C26_NoEmptyTypeEntry ==
  /\ \A t \in EventTypes :
       (bus.subscriptions[t] # Absent) => (bus.subscriptions[t] # {})
  /\ EventTypeCount(bus) =
       Cardinality({t \in EventTypes : Subscribers(bus, t) # {}})

C26_Witness ==
  \E id \in SubIds, other \in SubIds :
    /\ handles[id].state = "removed"
    /\ bus.subscriptions[handles[id].eventType] = Absent
    /\ handles[other].state = "active"
    /\ other \in Subscribers(bus, handles[other].eventType)

\* C28: the bus returns to idle again and again, with every event published
\* so far delivered; the queue is never non-empty while no drain loop is
\* running.
C28_NothingStranded ==
  /\ []((bus.eventQueue # <<>>) => (bus.processing /\ Running # {}))
  /\ []<>(/\ ~bus.processing
          /\ bus.eventQueue = <<>>
          /\ Range(trail.started) = 1..trail.published)

C28_Witness ==
  /\ Len(trail.started) >= 2
  /\ ~bus.processing
  /\ bus.eventQueue = <<>>
  /\ \E l \in Loops : loops[l].pc = "idle" /\ loops[l] = IdleDelivery
  /\ \E id \in SubIds : handles[id].state = "active"
====
